---- MODULE Spec2Model ----
(***************************************************************************)
(* Model of the Webflow -> Pipedrive form relay.                           *)
(*                                                                         *)
(* A JavaScript string is a sequence of one-character strings.  A request  *)
(* is one run of formSubmission; every `await` of an external service is   *)
(* one action: the service answers (its answer is an input of the action)  *)
(* and the handler runs on to its next await or to its response.           *)
(***************************************************************************)
EXTENDS Integers, Sequences, FiniteSets, TLC

\* Number of submissions
NumReqs == 2

Reqs == 1..NumReqs

\* JavaScript null / undefined: a value no string equals
Null == <<"NULL">>

(***************************************************************************)
(* String helpers                                                          *)
(***************************************************************************)
RECURSIVE TrimLeft(_)
TrimLeft(s) ==
    IF s # <<>> /\ Head(s) = " " THEN TrimLeft(Tail(s)) ELSE s

RECURSIVE TrimRight(_)
TrimRight(s) ==
    IF s # <<>> /\ s[Len(s)] = " " THEN TrimRight(SubSeq(s, 1, Len(s) - 1)) ELSE s

\* String.prototype.trim
Trim(s) == TrimRight(TrimLeft(s))

\* `x` read as a truth value, without the trim: a blank string is truthy
TrimTruthy_Untrimmed(s) == s # Null /\ s # <<>>

\* `x?.trim()` read as a truth value: null, empty and blank are all falsy
TrimTruthy(s) == s # Null /\ Trim(s) # <<>>

RECURSIVE Join(_, _)
\* Array.prototype.join
Join(parts, sep) ==
    IF parts = <<>> THEN <<>>
    ELSE IF Len(parts) = 1 THEN parts[1]
    ELSE parts[1] \o sep \o Join(Tail(parts), sep)

RECURSIVE SelectTruthy(_)
\* .filter(name => name?.trim())
SelectTruthy(vals) ==
    IF vals = <<>> THEN <<>>
    ELSE IF TrimTruthy(Head(vals)) THEN <<Head(vals)>> \o SelectTruthy(Tail(vals))
    ELSE SelectTruthy(Tail(vals))

(***************************************************************************)
(* Program constants                                                       *)
(***************************************************************************)
contact == <<"c","o","n","t","a","c","t">>
newsletter == <<"n","e","w","s","l","e","t","t","e","r">>
Unknown == <<"U","n","k","n","o","w","n">>
homepage == <<"h","o","m","e","p","a","g","e">>

TokenField == "g-recaptcha-response"

\* The token the verification service issued to the front end
ValidToken == <<"t">>

\* FORM_FIELD_MAPPINGS: form name -> canonical field -> raw field name(s)
FORM_FIELD_MAPPINGS ==
    ( contact :> [ email |-> "Email",
                   fullName |-> [isArray |-> FALSE, fields |-> <<"name">>],
                   phone |-> "Phone-Number",
                   jobTitle |-> "Job-Title",
                   company |-> "Company",
                   message |-> "Message" ] )
    @@
    ( newsletter :> [ email |-> "Email",
                      fullName |-> [isArray |-> TRUE, fields |-> <<"First-Name", "Last-Name">>],
                      company |-> "Company" ] )

OptionalFields == {"phone", "jobTitle", "company", "message"}

\* FormData.get: null for a field the body does not carry
Get(formData, key) == IF key \in DOMAIN formData THEN formData[key] ELSE Null

\* url.searchParams.get(...) || default
OrElse(v, dflt) == IF v = Null \/ v = <<>> THEN dflt ELSE v

\* extractUrlParams with `form || "Unknown"` for `form || source`
extractUrlParams_FormOrUnknown(query) ==
    [formName |-> OrElse(query.form, Unknown),
     formSource |-> OrElse(query.source, Unknown)]

\* extractUrlParams: the form name and the source of a request's query
extractUrlParams(query) ==
    LET source == OrElse(query.source, Unknown)
        form == query.form
    IN [formName |-> OrElse(form, source), formSource |-> source]

\* The fullName without the .filter(...): every listed field is trimmed and
\* joined, a missing one as the empty string
FullNameOf_NoFilter(formData, mapping) ==
    IF mapping.fullName.isArray
    THEN LET names == [i \in 1..Len(mapping.fullName.fields) |->
                          LET v == Get(formData, mapping.fullName.fields[i])
                          IN IF v = Null THEN <<>> ELSE Trim(v)]
         IN Join(names, <<" ">>)
    ELSE LET v == Get(formData, mapping.fullName.fields[1])
         IN IF v = Null THEN <<>> ELSE Trim(v)

\* The fullName of standardizeFormData, before the emptiness test
FullNameOf(formData, mapping) ==
    IF mapping.fullName.isArray
    THEN LET raw == [i \in 1..Len(mapping.fullName.fields) |->
                        Get(formData, mapping.fullName.fields[i])]
             kept == SelectTruthy(raw)
             names == [i \in 1..Len(kept) |-> Trim(kept[i])]
         IN Join(names, <<" ">>)
    ELSE LET v == Get(formData, mapping.fullName.fields[1])
         IN IF v = Null THEN <<>> ELSE Trim(v)

\* The optional fields with `if (v !== null)` for `if (v?.trim())`: a blank
\* raw value is carried over as an empty canonical value
PresentOptional_Carried(formData, mapping) ==
    {k \in OptionalFields \cap DOMAIN mapping : Get(formData, mapping[k]) # Null}

\* The optional canonical fields standardizeFormData sets
PresentOptional(formData, mapping) ==
    {k \in OptionalFields \cap DOMAIN mapping : TrimTruthy(Get(formData, mapping[k]))}

\* standardizeFormData with a runtime fallback: a form name without an entry
\* is mapped with the contact form's entry
standardizeFormData_Fallback(formData, formName) ==
    LET mapping == IF formName \in DOMAIN FORM_FIELD_MAPPINGS
                   THEN FORM_FIELD_MAPPINGS[formName]
                   ELSE FORM_FIELD_MAPPINGS[contact]
        email == Get(formData, mapping.email)
        fullName == FullNameOf(formData, mapping)
    IN IF ~TrimTruthy(email)
       THEN [ok |-> FALSE, err |-> "EmailRequired"]
       ELSE IF fullName = <<>>
       THEN [ok |-> FALSE, err |-> "NameRequired"]
       ELSE [ok |-> TRUE,
             val |-> [k \in {"email", "fullName"} \cup PresentOptional(formData, mapping) |->
                        IF k = "email" THEN Trim(email)
                        ELSE IF k = "fullName" THEN fullName
                        ELSE Trim(Get(formData, mapping[k]))]]

\* standardizeFormData: [ok, err] on a throw, [ok, val] on a return
standardizeFormData(formData, formName) ==
    IF formName \notin DOMAIN FORM_FIELD_MAPPINGS
    THEN [ok |-> FALSE, err |-> "NoFieldMapping"]
    ELSE LET mapping == FORM_FIELD_MAPPINGS[formName]
             email == Get(formData, mapping.email)
             fullName == FullNameOf(formData, mapping)
         IN IF ~TrimTruthy(email)
            THEN [ok |-> FALSE, err |-> "EmailRequired"]
            ELSE IF fullName = <<>>
            THEN [ok |-> FALSE, err |-> "NameRequired"]
            ELSE [ok |-> TRUE,
                  val |-> [k \in {"email", "fullName"} \cup PresentOptional(formData, mapping) |->
                             IF k = "email" THEN Trim(email)
                             ELSE IF k = "fullName" THEN fullName
                             ELSE Trim(Get(formData, mapping[k]))]]

\* The rawData of processFormSubmission
RawData(formData, formName, formSource) ==
    LET kept == {k \in DOMAIN formData : k # TokenField /\ Trim(formData[k]) # <<>>}
    IN [k \in {"form", "source"} \cup kept |->
          IF k \in kept THEN Trim(formData[k])
          ELSE IF k = "form" THEN formName ELSE formSource]

(***************************************************************************)
(* URL encoding, as the Pipedrive client applies it to a search term       *)
(***************************************************************************)
AlphaNum ==
    {"a","b","c","d","e","f","g","h","i","j","k","l","m","n","o","p","q","r","s","t",
     "u","v","w","x","y","z",
     "A","B","C","D","E","F","G","H","I","J","K","L","M","N","O","P","Q","R","S","T",
     "U","V","W","X","Y","Z",
     "0","1","2","3","4","5","6","7","8","9"}

\* The characters encodeURI leaves alone
UriUnescaped ==
    AlphaNum \cup {";", ",", "/", "?", ":", "@", "&", "=", "+", "$",
                   "-", "_", ".", "!", "~", "*", "'", "(", ")", "#"}

\* The characters the application/x-www-form-urlencoded serializer leaves alone
FormUnescaped == AlphaNum \cup {"*", "-", ".", "_"}

\* The two hex digits of the characters of the model's alphabet that get escaped
HexOf ==
    ("%" :> <<"2","5">>) @@ (" " :> <<"2","0">>) @@ ("@" :> <<"4","0">>) @@
    ("+" :> <<"2","B">>)

RECURSIVE encodeURI(_)
encodeURI(s) ==
    IF s = <<>> THEN <<>>
    ELSE (IF Head(s) \in UriUnescaped THEN <<Head(s)>> ELSE <<"%">> \o HexOf[Head(s)])
         \o encodeURI(Tail(s))

RECURSIVE FormUrlEncode(_)
\* URLSearchParams.prototype.toString, for one value
FormUrlEncode(s) ==
    IF s = <<>> THEN <<>>
    ELSE (IF Head(s) \in FormUnescaped THEN <<Head(s)>>
          ELSE IF Head(s) = " " THEN <<"+">>
          ELSE <<"%">> \o HexOf[Head(s)])
         \o FormUrlEncode(Tail(s))

RECURSIVE FormUrlDecode(_)
\* The service's parse of one query value
FormUrlDecode(s) ==
    IF s = <<>> THEN <<>>
    ELSE IF Head(s) = "+" THEN <<" ">> \o FormUrlDecode(Tail(s))
    ELSE IF Head(s) = "%" /\ Len(s) >= 3
            /\ \E c \in DOMAIN HexOf : HexOf[c] = <<s[2], s[3]>>
    THEN <<CHOOSE c \in DOMAIN HexOf : HexOf[c] = <<s[2], s[3]>> >>
         \o FormUrlDecode(SubSeq(s, 4, Len(s)))
    ELSE <<Head(s)>> \o FormUrlDecode(Tail(s))

\* The `term` query value findPersonByEmail puts on the wire
PersonSearchQuery(email) == FormUrlEncode(encodeURI(email))

\* The `term` query value findLeadByPersonId puts on the wire
LeadSearchQuery(personName) == FormUrlEncode(personName)

(***************************************************************************)
(* Inputs of the request model                                             *)
(***************************************************************************)
\* The front end's query (?source=contact), a query with an explicit form
\* parameter, and a query with neither parameter
QContact == [form |-> Null, source |-> contact]
QNewsletter == [form |-> newsletter, source |-> homepage]
QNone == [form |-> Null, source |-> Null]

\* A body with a padded email, both kinds of name field and a phone
BodyFull ==
    ("Email" :> <<" ","a","@","x"," ">>) @@ ("name" :> <<"J">>) @@
    ("First-Name" :> <<" ","K">>) @@ ("Phone-Number" :> <<"1">>) @@
    (TokenField :> ValidToken)

\* A body whose email holds a character encodeURI escapes, and no token
BodyPercent ==
    ("Email" :> <<"a","%","@","x">>) @@ ("name" :> <<"J">>)

\* A body whose email is blank
BodyBlank ==
    ("Email" :> <<" ">>) @@ ("name" :> <<"J">>) @@ (TokenField :> ValidToken)

\* The submissions a request is drawn from
Submissions ==
    { [query |-> QContact, body |-> BodyFull],
      [query |-> QNewsletter, body |-> BodyFull],
      [query |-> QContact, body |-> BodyPercent],
      [query |-> QNone, body |-> BodyFull],
      [query |-> QContact, body |-> BodyBlank] }

(***************************************************************************)
(* State                                                                   *)
(***************************************************************************)
VARIABLES
    pc,        \* per request: the await the handler is suspended at
    req,       \* per request: the query and the body it was sent with
    loc,       \* per request: the handler's locals
    calls,     \* per request: the external calls issued, with their answers
    resp,      \* per request: the envelope returned
    backup,    \* the form_submissions table
    persons,   \* the CRM's contacts
    leads,     \* the CRM's leads
    notes,     \* the CRM's notes
    overlap,   \* whether a request was ever submitted while another was in flight
    isSubmitting,  \* the front end's ContactForm: its isSubmitting flag
    disabled,      \* the front end's ContactForm: submitButton.disabled
    ev             \* the front end's submit events and their handlers

vars == <<pc, req, loc, calls, resp, backup, persons, leads, notes, overlap,
          isSubmitting, disabled, ev>>

\* The state of the endpoint and of the services behind it
apiVars == <<pc, req, loc, calls, resp, backup, persons, leads, notes, overlap>>

\* The state of the page
uiVars == <<isSubmitting, disabled, ev>>

\* Number of submit events on the page
MaxEvents == 3

Events == 1..MaxEvents

\* A submit event that has not happened yet
NotFired ==
    [at |-> "pending", redirectUrl |-> FALSE, busy |-> FALSE, tokens |-> 0, posts |-> 0]

NoPerson == [id |-> 0, name |-> Null, email |-> Null, phone |-> Null]

NoLocals ==
    [formName |-> Null, formSource |-> Null, rawData |-> <<>>, standardized |-> <<>>,
     person |-> NoPerson, leadId |-> 0]

NoResp == [status |-> 0, error |-> "none", recaptcha_result |-> "none"]

\* The 200 envelope of formSubmission
SuccessEnvelope == [status |-> 200, error |-> "null", recaptcha_result |-> "success"]

\* The catch of formSubmission answering a validation error with a 400
ErrorEnvelope_ByKind(message) ==
    [status |-> IF message \in {"EmailRequired", "NameRequired"} THEN 400 ELSE 500,
     error |-> message, recaptcha_result |-> "absent"]

\* The 500 envelope of formSubmission's catch
ErrorEnvelope(message) == [status |-> 500, error |-> message, recaptcha_result |-> "absent"]

Init ==
    /\ pc = [r \in Reqs |-> "idle"]
    /\ req = [r \in Reqs |-> [query |-> [form |-> Null, source |-> Null], body |-> <<>>]]
    /\ loc = [r \in Reqs |-> NoLocals]
    /\ calls = [r \in Reqs |-> <<>>]
    /\ resp = [r \in Reqs |-> NoResp]
    /\ backup = {}
    /\ persons = {}
    /\ leads = {}
    /\ notes = {}
    /\ overlap = FALSE
    /\ isSubmitting = FALSE
    /\ disabled = FALSE
    /\ ev = [e \in Events |-> NotFired]

InFlight(r) == pc[r] \notin {"idle", "done"}

\* One external call of request r and the answer it got
\* (id: the id of the entity the answer carries, 0 when it carries none)
Logged(r, op, arg, res, id) ==
    calls' = [calls EXCEPT ![r] =
                 Append(@, [op |-> op, arg |-> arg, res |-> res, id |-> id])]

\* The handler returns: its catch block for an exception, the 200 envelope otherwise
Respond(r, envelope) ==
    /\ pc' = [pc EXCEPT ![r] = "done"]
    /\ resp' = [resp EXCEPT ![r] = envelope]

Goto(r, label) ==
    /\ pc' = [pc EXCEPT ![r] = label]
    /\ UNCHANGED resp

(***************************************************************************)
(* The request arrives: formSubmission up to its first external call       *)
(***************************************************************************)
Submit(r) ==
    /\ pc[r] = "idle"
    /\ IF r = 1 THEN TRUE ELSE pc[r - 1] # "idle"  \* numbered in arrival order
    /\ \E s \in Submissions :
          /\ req' = [req EXCEPT ![r] = s]
          /\ loc' = [loc EXCEPT ![r] = [NoLocals EXCEPT
                        !.formName = extractUrlParams(s.query).formName,
                        !.formSource = extractUrlParams(s.query).formSource]]
    /\ overlap' = (overlap \/ \E o \in Reqs : InFlight(o))
    /\ Goto(r, "captcha")
    /\ UNCHANGED <<calls, backup, persons, leads, notes, uiVars>>

(***************************************************************************)
(* Spam filter and field mapping: processFormSubmission                    *)
(***************************************************************************)
\* What the verification service does with a token: it answers success: true
\* for the token it issued and success: false for any other (an absent token
\* included), or the transport fails (fetch or json() rejects)
CaptchaAnswers(token) ==
    {IF token = ValidToken THEN "success" ELSE "fail", "throw"}

\* validateCaptcha: awaits the service's answer, and returns the same object
\* whatever the answer says
validateCaptcha(answer) ==
    IF answer = "throw"
    THEN [thrown |-> TRUE, status |-> 0]
    ELSE [thrown |-> FALSE, status |-> 200]

\* processFormSubmission with the verification call's rejection swallowed
processFormSubmission_CaptchaCaught(formData, formName, formSource, answer) ==
    LET standardized == standardizeFormData(formData, formName)
    IN IF ~standardized.ok
       THEN [ok |-> FALSE, err |-> standardized.err]
       ELSE [ok |-> TRUE,
             rawData |-> RawData(formData, formName, formSource),
             standardized |-> standardized.val]

processFormSubmission(formData, formName, formSource, answer) ==
    LET captchaResponse == validateCaptcha(answer)
        standardized == standardizeFormData(formData, formName)
    IN IF captchaResponse.thrown
       THEN [ok |-> FALSE, err |-> "FetchFailed"]
       ELSE IF captchaResponse.status # 200
       THEN [ok |-> FALSE, err |-> "RecaptchaFailed"]
       ELSE IF ~standardized.ok
       THEN [ok |-> FALSE, err |-> standardized.err]
       ELSE [ok |-> TRUE,
             rawData |-> RawData(formData, formName, formSource),
             standardized |-> standardized.val]

\* formSubmission, from the await of validateCaptcha to the insert it issues
ValidateCaptcha(r) ==
    /\ pc[r] = "captcha"
    /\ \E answer \in CaptchaAnswers(Get(req[r].body, TokenField)) :
          LET out == processFormSubmission(req[r].body, loc[r].formName,
                                           loc[r].formSource, answer)
          IN /\ Logged(r, "captcha", Get(req[r].body, TokenField), answer, 0)
             /\ IF out.ok
                THEN /\ loc' = [loc EXCEPT ![r].rawData = out.rawData,
                                           ![r].standardized = out.standardized]
                     /\ Goto(r, "backup")
                ELSE /\ Respond(r, ErrorEnvelope(out.err))
                     /\ UNCHANGED loc
    /\ UNCHANGED <<req, backup, persons, leads, notes, overlap, uiVars>>

(***************************************************************************)
(* Backup store: storeSubmissionInDatabase                                 *)
(***************************************************************************)
\* The insert succeeds, comes back with an error, or rejects
InsertAnswers == {"ok", "error", "throw"}

\* storeSubmissionInDatabase without its `if (error)`, and with a rejection
\* swallowed
StoreSubmission_ErrorIgnored(r) ==
    /\ pc[r] = "backup"
    /\ \E answer \in InsertAnswers :
          /\ Logged(r, "insert", loc[r].rawData, answer, 0)
          /\ backup' = IF answer = "ok"
                       THEN backup \cup {[by |-> r, data |-> loc[r].rawData]}
                       ELSE backup
          /\ Goto(r, "findPerson")
    /\ UNCHANGED <<req, loc, persons, leads, notes, overlap, uiVars>>

StoreSubmission(r) ==
    /\ pc[r] = "backup"
    /\ \E answer \in InsertAnswers :
          /\ Logged(r, "insert", loc[r].rawData, answer, 0)
          /\ IF answer = "ok"
             THEN /\ backup' = backup \cup {[by |-> r, data |-> loc[r].rawData]}
                  /\ Goto(r, "findPerson")
             ELSE /\ Respond(r, ErrorEnvelope(IF answer = "error"
                                              THEN "DatabaseStorageFailed"
                                              ELSE "FetchFailed"))
                  /\ UNCHANGED backup
    /\ UNCHANGED <<req, loc, persons, leads, notes, overlap, uiVars>>

(***************************************************************************)
(* CRM sync: sendSubmissionToPipedrive                                     *)
(***************************************************************************)
OwnerId == 23676555
VisibleTo == 3

\* The contacts the CRM's exact-match search returns for a query value
PersonSearchItems(query) ==
    {p \in persons : p.email = FormUrlDecode(query)}

\* The leads the CRM's exact-match search returns for a title and a contact
LeadSearchItems(query, personId) ==
    {l \in leads : l.person_id = personId /\ l.title = FormUrlDecode(query)}

\* A search answers with its items, answers without a data object (an error
\* body), or rejects
PersonSearchAnswers == {"ok", "nodata", "throw"}

\* sendSubmissionToPipedrive creating a contact whatever the search found
FindPerson_AlwaysCreate(r) ==
    /\ pc[r] = "findPerson"
    /\ LET query == PersonSearchQuery(loc[r].standardized["email"])
           items == PersonSearchItems(query)
       IN \E answer \in PersonSearchAnswers :
             IF answer = "ok"
             THEN IF items = {}
                  THEN /\ Logged(r, "findPerson", query, "miss", 0)
                       /\ Goto(r, "createPerson")
                       /\ UNCHANGED loc
                  ELSE \E p \in items :
                          /\ Logged(r, "findPerson", query, "found", p.id)
                          /\ loc' = [loc EXCEPT ![r].person = p]
                          /\ Goto(r, "createPerson")
             ELSE /\ Logged(r, "findPerson", query, answer, 0)
                  /\ Respond(r, ErrorEnvelope(IF answer = "nodata"
                                              THEN "TypeError" ELSE "FetchFailed"))
                  /\ UNCHANGED loc
    /\ UNCHANGED <<req, backup, persons, leads, notes, overlap, uiVars>>

\* sendSubmissionToPipedrive bringing a found contact up to date with the
\* submitted name and phone
FindPerson_UpdateFound(r) ==
    /\ pc[r] = "findPerson"
    /\ LET query == PersonSearchQuery(loc[r].standardized["email"])
           items == PersonSearchItems(query)
       IN \E answer \in PersonSearchAnswers :
             IF answer = "ok"
             THEN IF items = {}
                  THEN /\ Logged(r, "findPerson", query, "miss", 0)
                       /\ Goto(r, "createPerson")
                       /\ UNCHANGED <<loc, persons>>
                  ELSE \E p \in items :
                          LET updated == [p EXCEPT
                                  !.name = loc[r].standardized["fullName"],
                                  !.phone = Get(loc[r].standardized, "phone")]
                          IN /\ Logged(r, "findPerson", query, "found", p.id)
                             /\ persons' = (persons \ {p}) \cup {updated}
                             /\ loc' = [loc EXCEPT ![r].person = updated]
                             /\ Goto(r, "findLead")
             ELSE /\ Logged(r, "findPerson", query, answer, 0)
                  /\ Respond(r, ErrorEnvelope(IF answer = "nodata"
                                              THEN "TypeError" ELSE "FetchFailed"))
                  /\ UNCHANGED <<loc, persons>>
    /\ UNCHANGED <<req, backup, leads, notes, overlap, uiVars>>

\* findExistingPerson, then the head of createNewPerson or of getOrCreateLead
FindPerson(r) ==
    /\ pc[r] = "findPerson"
    /\ LET query == PersonSearchQuery(loc[r].standardized["email"])
           items == PersonSearchItems(query)
       IN \E answer \in PersonSearchAnswers :
             IF answer = "ok"
             THEN IF items = {}
                  THEN /\ Logged(r, "findPerson", query, "miss", 0)
                       /\ Goto(r, "createPerson")
                       /\ UNCHANGED loc
                  ELSE \E p \in items :
                          /\ Logged(r, "findPerson", query, "found", p.id)
                          /\ loc' = [loc EXCEPT ![r].person = p]
                          /\ Goto(r, "findLead")
             ELSE /\ Logged(r, "findPerson", query, answer, 0)
                  /\ Respond(r, ErrorEnvelope(IF answer = "nodata"
                                              THEN "TypeError" ELSE "FetchFailed"))
                  /\ UNCHANGED loc
    /\ UNCHANGED <<req, backup, persons, leads, notes, overlap, uiVars>>

\* The personData of createNewPerson
PersonData(data) ==
    [name |-> Trim(data["fullName"]),
     email |-> data["email"],
     phone |-> IF "phone" \in DOMAIN data THEN data["phone"] ELSE Null,
     owner_id |-> OwnerId,
     visible_to |-> VisibleTo]

\* The create answers with the created entity, without one, or rejects
CreateAnswers == {"ok", "nodata", "throw"}

\* createNewPerson as an upsert: a contact that already has the email is
\* returned instead of a new one being added
CreatePerson_Upsert(r) ==
    /\ pc[r] = "createPerson"
    /\ LET personData == PersonData(loc[r].standardized)
           same == {p \in persons : p.email = personData.email}
           created == IF same # {}
                      THEN CHOOSE p \in same : TRUE
                      ELSE [id |-> Cardinality(persons) + 1,
                            name |-> personData.name,
                            email |-> personData.email,
                            phone |-> personData.phone,
                            owner_id |-> personData.owner_id,
                            visible_to |-> personData.visible_to]
       IN \E answer \in CreateAnswers :
             IF answer = "ok"
             THEN /\ Logged(r, "createPerson", personData, "created", created.id)
                  /\ persons' = persons \cup {created}
                  /\ loc' = [loc EXCEPT ![r].person = created]
                  /\ Goto(r, "findLead")
             ELSE /\ Logged(r, "createPerson", personData, answer, 0)
                  /\ Respond(r, ErrorEnvelope(IF answer = "nodata"
                                              THEN "CreatePersonFailed" ELSE "FetchFailed"))
                  /\ UNCHANGED <<persons, loc>>
    /\ UNCHANGED <<req, backup, leads, notes, overlap, uiVars>>

\* createNewPerson without its `if (!newPersonResponse.data)`: a response
\* without an entity is returned as the person
CreatePerson_NoDataCheck(r) ==
    /\ pc[r] = "createPerson"
    /\ LET personData == PersonData(loc[r].standardized)
           created == [id |-> Cardinality(persons) + 1,
                       name |-> personData.name,
                       email |-> personData.email,
                       phone |-> personData.phone,
                       owner_id |-> personData.owner_id,
                       visible_to |-> personData.visible_to]
       IN \E answer \in CreateAnswers :
             IF answer = "ok"
             THEN /\ Logged(r, "createPerson", personData, "created", created.id)
                  /\ persons' = persons \cup {created}
                  /\ loc' = [loc EXCEPT ![r].person = created]
                  /\ Goto(r, "findLead")
             ELSE IF answer = "nodata"
             THEN /\ Logged(r, "createPerson", personData, answer, 0)
                  /\ Goto(r, "findLead")
                  /\ UNCHANGED <<persons, loc>>
             ELSE /\ Logged(r, "createPerson", personData, answer, 0)
                  /\ Respond(r, ErrorEnvelope("FetchFailed"))
                  /\ UNCHANGED <<persons, loc>>
    /\ UNCHANGED <<req, backup, leads, notes, overlap, uiVars>>

\* createNewPerson with a compensation: a failed create takes the request's
\* row out of the backup store
CreatePerson_Compensating(r) ==
    /\ pc[r] = "createPerson"
    /\ LET personData == PersonData(loc[r].standardized)
           created == [id |-> Cardinality(persons) + 1,
                       name |-> personData.name,
                       email |-> personData.email,
                       phone |-> personData.phone,
                       owner_id |-> personData.owner_id,
                       visible_to |-> personData.visible_to]
       IN \E answer \in CreateAnswers :
             IF answer = "ok"
             THEN /\ Logged(r, "createPerson", personData, "created", created.id)
                  /\ persons' = persons \cup {created}
                  /\ loc' = [loc EXCEPT ![r].person = created]
                  /\ Goto(r, "findLead")
                  /\ UNCHANGED backup
             ELSE /\ Logged(r, "createPerson", personData, answer, 0)
                  /\ Respond(r, ErrorEnvelope(IF answer = "nodata"
                                              THEN "CreatePersonFailed" ELSE "FetchFailed"))
                  /\ backup' = {row \in backup : row.by # r}
                  /\ UNCHANGED <<persons, loc>>
    /\ UNCHANGED <<req, leads, notes, overlap, uiVars>>

\* createNewPerson, from its await of addPerson
CreatePerson(r) ==
    /\ pc[r] = "createPerson"
    /\ LET personData == PersonData(loc[r].standardized)
           created == [id |-> Cardinality(persons) + 1,
                       name |-> personData.name,
                       email |-> personData.email,
                       phone |-> personData.phone,
                       owner_id |-> personData.owner_id,
                       visible_to |-> personData.visible_to]
       IN \E answer \in CreateAnswers :
             IF answer = "ok"
             THEN /\ Logged(r, "createPerson", personData, "created", created.id)
                  /\ persons' = persons \cup {created}
                  /\ loc' = [loc EXCEPT ![r].person = created]
                  /\ Goto(r, "findLead")
             ELSE /\ Logged(r, "createPerson", personData, answer, 0)
                  /\ Respond(r, ErrorEnvelope(IF answer = "nodata"
                                              THEN "CreatePersonFailed" ELSE "FetchFailed"))
                  /\ UNCHANGED <<persons, loc>>
    /\ UNCHANGED <<req, backup, leads, notes, overlap, uiVars>>

\* getOrCreateLead titling the lead with the submitted name
LeadArg_SubmittedName(r) ==
    [title |-> loc[r].standardized["fullName"], person_id |-> loc[r].person.id]

\* The argument getOrCreateLead passes to getLead
LeadArg(r) ==
    [title |-> loc[r].person.name, person_id |-> loc[r].person.id]

\* The lead search answers success: true with its items, success: false, or
\* rejects.  With no lead to find, success: false and an empty result drive
\* getLead alike, so the empty result stands for both.
LeadSearchAnswers(items) ==
    IF items = {} THEN {"ok", "throw"} ELSE {"ok", "fail", "throw"}

\* getLead up to its return or its createLead, and getOrCreateLead's id check
FindLead(r) ==
    /\ pc[r] = "findLead"
    /\ LET arg == LeadArg(r)
           items == LeadSearchItems(LeadSearchQuery(arg.title), arg.person_id)
       IN \E answer \in LeadSearchAnswers(items) :
             IF answer = "ok" /\ items # {}
             THEN \E l \in items :
                     /\ Logged(r, "findLead", arg, "found", l.id)
                     /\ loc' = [loc EXCEPT ![r].leadId = l.id]
                     /\ Goto(r, "note")
             ELSE IF answer = "throw"
             THEN /\ Logged(r, "findLead", arg, "throw", 0)
                  /\ Respond(r, ErrorEnvelope("FetchFailed"))
                  /\ UNCHANGED loc
             ELSE /\ Logged(r, "findLead", arg, IF answer = "ok" THEN "miss" ELSE "fail", 0)
                  /\ Goto(r, "createLead")
                  /\ UNCHANGED loc
    /\ UNCHANGED <<req, backup, persons, leads, notes, overlap, uiVars>>

\* getOrCreateLead without its `if (!leadId)`: a create that returned no
\* entity is followed by the note
CreateLead_NoIdCheck(r) ==
    /\ pc[r] = "createLead"
    /\ LET arg == LeadArg(r)
           created == [id |-> Cardinality(leads) + 1, title |-> arg.title,
                       person_id |-> arg.person_id]
       IN \E answer \in CreateAnswers :
             IF answer = "ok"
             THEN /\ Logged(r, "createLead", arg, "created", created.id)
                  /\ leads' = leads \cup {created}
                  /\ loc' = [loc EXCEPT ![r].leadId = created.id]
                  /\ Goto(r, "note")
             ELSE /\ Logged(r, "createLead", arg, answer, 0)
                  /\ Goto(r, "note")
                  /\ UNCHANGED <<leads, loc>>
    /\ UNCHANGED <<req, backup, persons, notes, overlap, uiVars>>

\* getLead from its await of createLead, and getOrCreateLead's id check
CreateLead(r) ==
    /\ pc[r] = "createLead"
    /\ LET arg == LeadArg(r)
           created == [id |-> Cardinality(leads) + 1, title |-> arg.title,
                       person_id |-> arg.person_id]
       IN \E answer \in CreateAnswers :
             IF answer = "ok"
             THEN /\ Logged(r, "createLead", arg, "created", created.id)
                  /\ leads' = leads \cup {created}
                  /\ loc' = [loc EXCEPT ![r].leadId = created.id]
                  /\ Goto(r, "note")
             ELSE /\ Logged(r, "createLead", arg, answer, 0)
                  /\ Respond(r, ErrorEnvelope(IF answer = "nodata"
                                              THEN "LeadFailed" ELSE "FetchFailed"))
                  /\ UNCHANGED <<leads, loc>>
    /\ UNCHANGED <<req, backup, persons, notes, overlap, uiVars>>

\* Object.entries of a canonical record: its keys in insertion order
CanonicalOrder == <<"email", "fullName", "phone", "jobTitle", "company", "message">>

\* formatSubmissionNote over a fixed list of labels: an absent optional field
\* is rendered with an empty value
formatSubmissionNote_AllLabels(data, formName, formSource) ==
    [form |-> formName, source |-> formSource,
     fields |-> [i \in 1..Len(CanonicalOrder) |->
                   <<CanonicalOrder[i],
                     IF CanonicalOrder[i] \in DOMAIN data
                     THEN data[CanonicalOrder[i]] ELSE <<>> >>]]

\* formatSubmissionNote: the header's form and source and the label/value lines
formatSubmissionNote(data, formName, formSource) ==
    LET keys == SelectSeq(CanonicalOrder, LAMBDA k : k \in DOMAIN data)
    IN [form |-> formName, source |-> formSource,
        fields |-> [i \in 1..Len(keys) |-> <<keys[i], data[keys[i]]>>]]

\* The note POST is delivered, or rejects
NoteAnswers == {"ok", "throw"}

\* addNoteToLeadAndPerson without its try/catch
addNoteToLeadAndPerson_NoCatch(answer) ==
    [delivered |-> answer = "ok", thrown |-> answer = "throw"]

\* addNoteToLeadAndPerson: its try block holds the POST, its catch logs a
\* rejection and returns
addNoteToLeadAndPerson(answer) ==
    [delivered |-> answer = "ok", thrown |-> FALSE]

\* addSubmissionNote, and formSubmission's return
AddNote(r) ==
    /\ pc[r] = "note"
    /\ LET arg == [lead_id |-> loc[r].leadId, person_id |-> loc[r].person.id,
                   content |-> formatSubmissionNote(loc[r].standardized,
                                                    loc[r].formName, loc[r].formSource)]
       IN \E answer \in NoteAnswers :
             LET out == addNoteToLeadAndPerson(answer)
             IN /\ Logged(r, "note", arg, answer, 0)
                /\ notes' = IF out.delivered THEN notes \cup {arg @@ [by |-> r]} ELSE notes
                /\ IF out.thrown
                   THEN Respond(r, ErrorEnvelope("FetchFailed"))
                   ELSE Respond(r, SuccessEnvelope)
    /\ UNCHANGED <<req, loc, backup, persons, leads, overlap, uiVars>>

Next ==
    \E r \in Reqs :
        \/ Submit(r)
        \/ ValidateCaptcha(r)
        \/ StoreSubmission(r)
        \/ FindPerson(r)
        \/ CreatePerson(r)
        \/ FindLead(r)
        \/ CreateLead(r)
        \/ AddNote(r)

Spec == Init /\ [][Next]_vars

(***************************************************************************)
(* One request over a wide range of queries and bodies: the same handler,  *)
(* its input drawn from every combination of present, blank and padded     *)
(* fields instead of from the five submissions above                       *)
(***************************************************************************)
\* Longest value of a required field
MaxLen == 2

\* The third form name the README documents
demo == <<"d","e","m","o">>

\* The values of a required field: every string of blanks and letters up to
\* MaxLen, and Null for a field the body does not carry
RequiredValues ==
    {Null} \cup UNION {[1..n -> {" ", "a"}] : n \in 0..MaxLen}

\* The values of any other field: not carried, blank, padded
OtherValues == {Null, <<" ">>, <<" ","b"," ">>}

\* A FormData with the fields of f that are not Null
FormDataOf(f) == [k \in {k \in DOMAIN f : f[k] # Null} |-> f[k]]

\* Bodies for the contact form's mapping
ContactBodies ==
    { FormDataOf(("Email" :> e) @@ ("name" :> n) @@ ("Phone-Number" :> p) @@
                 ("Job-Title" :> j) @@ ("Company" :> c) @@ ("Message" :> g) @@
                 (TokenField :> ValidToken)) :
        e \in RequiredValues, n \in RequiredValues,
        p \in OtherValues, j \in OtherValues, c \in OtherValues, g \in OtherValues }

\* Bodies for the newsletter form's mapping; they carry a phone, which that
\* mapping does not name
NewsletterBodies ==
    { FormDataOf(("Email" :> e) @@ ("First-Name" :> f) @@ ("Last-Name" :> l) @@
                 ("Company" :> c) @@ ("Phone-Number" :> <<"1">>) @@
                 (TokenField :> ValidToken)) :
        e \in RequiredValues, f \in RequiredValues, l \in RequiredValues,
        c \in OtherValues }

\* Bodies that carry fields named like the two keys rawData starts with, with
\* and without a token
CollidingBodies ==
    { FormDataOf(("Email" :> <<"a","@","x">>) @@ ("name" :> <<"J">>) @@
                 ("form" :> f) @@ ("source" :> s) @@ ("Message" :> g) @@
                 (TokenField :> t)) :
        f \in OtherValues, s \in OtherValues, g \in OtherValues,
        t \in {Null, ValidToken} }

\* Queries with each parameter absent, empty or set
AnyQueries ==
    { [form |-> f, source |-> s] :
        f \in {Null, <<>>, contact, newsletter, demo},
        s \in {Null, <<>>, contact, homepage} }

\* The values of the form parameter the README documents
ReadmeForms == {contact, newsletter, demo}

\* The body of the README's form setup: the seven listed fields and a token
BodyReadme ==
    ("Email" :> <<"a","@","x">>) @@ ("First-Name" :> <<"K">>) @@
    ("Last-Name" :> <<"L">>) @@ ("Phone-Number" :> <<"1">>) @@
    ("Job-Title" :> <<"d","e","v">>) @@ ("Company" :> <<"c","o">>) @@
    ("Message" :> <<"h","i">>) @@ (TokenField :> ValidToken)

\* A body without any field: no token, no email, no name
BodyNoFields == FormDataOf(("Email" :> Null))

AnySubmissions ==
    {[query |-> QContact, body |-> b] : b \in ContactBodies \cup CollidingBodies}
    \cup {[query |-> QNewsletter, body |-> b] : b \in NewsletterBodies}
    \cup {[query |-> q, body |-> b] :
             q \in AnyQueries,
             b \in {BodyFull, BodyReadme, BodyPercent, BodyBlank, BodyNoFields}}

\* formSubmission up to its first external call, for any of these submissions
SubmitAny(r) ==
    /\ pc[r] = "idle"
    /\ \E s \in AnySubmissions :
          /\ req' = [req EXCEPT ![r] = s]
          /\ loc' = [loc EXCEPT ![r] = [NoLocals EXCEPT
                        !.formName = extractUrlParams(s.query).formName,
                        !.formSource = extractUrlParams(s.query).formSource]]
    /\ overlap' = (overlap \/ \E o \in Reqs : InFlight(o))
    /\ Goto(r, "captcha")
    /\ UNCHANGED <<calls, backup, persons, leads, notes, uiVars>>

NextOne ==
    \/ SubmitAny(1)
    \/ ValidateCaptcha(1)
    \/ StoreSubmission(1)
    \/ FindPerson(1)
    \/ CreatePerson(1)
    \/ FindLead(1)
    \/ CreateLead(1)
    \/ AddNote(1)

SpecOne == Init /\ [][NextOne]_vars

(***************************************************************************)
(* The page: ContactForm's submit listener.  A submit event runs the       *)
(* listener up to its first await; each await is one action, taken when    *)
(* the promise settles, that runs the listener on to its next await or to  *)
(* its end.  ev[e].at is where the listener of event e stands:             *)
(*   "pending"     the event has not happened                              *)
(*   "ignored"     returned at `if (isSubmitting)`                         *)
(*   "nobutton"    returned at `if (!submitButton)`                        *)
(*   "recaptcha"   awaiting handleRecaptcha()                              *)
(*   "post"        awaiting handleFormSubmit(formData)                     *)
(*   "returned"    returned after one of the awaits                        *)
(*   "redirected"  set window.location.href and returned                   *)
(*   "rejected"    ended by handleRecaptcha()'s rejection                  *)
(*   "crashed"     ended by the TypeError of reading a null response       *)
(* busy records what the listener read from isSubmitting; tokens and posts *)
(* count its calls of handleRecaptcha and of handleFormSubmit.             *)
(***************************************************************************)
\* The page was navigated away from
Navigated == \E e \in Events : ev[e].at = "redirected"

\* The listener without `isSubmitting = true`
SubmitEvent_NoFlag(e) ==
    /\ ev[e].at = "pending"
    /\ IF e = 1 THEN TRUE ELSE ev[e - 1].at # "pending"
    /\ ~Navigated
    /\ \E submitButton \in BOOLEAN, redirectUrl \in BOOLEAN :
          IF isSubmitting
          THEN /\ ev' = [ev EXCEPT ![e].at = "ignored", ![e].busy = TRUE]
               /\ UNCHANGED <<isSubmitting, disabled>>
          ELSE IF ~submitButton
          THEN /\ ev' = [ev EXCEPT ![e].at = "nobutton"]
               /\ UNCHANGED <<isSubmitting, disabled>>
          ELSE /\ disabled' = TRUE
               /\ ev' = [ev EXCEPT ![e].at = "recaptcha",
                                   ![e].redirectUrl = redirectUrl,
                                   ![e].tokens = @ + 1]
               /\ UNCHANGED isSubmitting
    /\ UNCHANGED apiVars

\* The listener from the event to its await of handleRecaptcha()
SubmitEvent(e) ==
    /\ ev[e].at = "pending"
    /\ IF e = 1 THEN TRUE ELSE ev[e - 1].at # "pending"
    /\ ~Navigated
    /\ \E submitButton \in BOOLEAN, redirectUrl \in BOOLEAN :
          IF isSubmitting
          THEN /\ ev' = [ev EXCEPT ![e].at = "ignored", ![e].busy = TRUE]
               /\ UNCHANGED <<isSubmitting, disabled>>
          ELSE IF ~submitButton
          THEN /\ ev' = [ev EXCEPT ![e].at = "nobutton"]
               /\ UNCHANGED <<isSubmitting, disabled>>
          ELSE /\ isSubmitting' = TRUE
               /\ disabled' = TRUE
               /\ ev' = [ev EXCEPT ![e].at = "recaptcha",
                                   ![e].redirectUrl = redirectUrl,
                                   ![e].tokens = @ + 1]
    /\ UNCHANGED apiVars

\* handleRecaptcha() resolves with a token, resolves without one (no site
\* key, no grecaptcha, an empty token), or rejects (grecaptcha.execute
\* rejects, or grecaptcha is not declared yet)
TokenAnswers == {"token", "none", "reject"}

\* The listener from the settling of handleRecaptcha() to its await of
\* handleFormSubmit(formData)
TokenSettles(e) ==
    /\ ev[e].at = "recaptcha"
    /\ \E answer \in TokenAnswers :
          CASE answer = "token" ->
                 /\ ev' = [ev EXCEPT ![e].at = "post", ![e].posts = @ + 1]
                 /\ UNCHANGED <<isSubmitting, disabled>>
            [] answer = "none" ->
                 /\ isSubmitting' = FALSE
                 /\ disabled' = FALSE
                 /\ ev' = [ev EXCEPT ![e].at = "returned"]
            [] answer = "reject" ->
                 /\ ev' = [ev EXCEPT ![e].at = "rejected"]
                 /\ UNCHANGED <<isSubmitting, disabled>>
    /\ UNCHANGED apiVars

\* handleFormSubmit resolves with the endpoint's envelope, whose error is
\* null or a message, or with null when fetch or json() rejected
PostAnswers == {"success", "error", "null"}

\* handleFormSubmit: what the listener gets for the POST's outcome
handleFormSubmit(answer) ==
    IF answer = "null" THEN [isNull |-> TRUE, error |-> FALSE]
    ELSE [isNull |-> FALSE, error |-> answer = "error"]

\* The listener from the settling of handleFormSubmit to its end
PostSettles(e) ==
    /\ ev[e].at = "post"
    /\ \E answer \in PostAnswers :
          LET response == handleFormSubmit(answer)
          IN IF response.isNull
             THEN \* `response.error` on null: a TypeError nothing catches
                  /\ ev' = [ev EXCEPT ![e].at = "crashed"]
                  /\ UNCHANGED <<isSubmitting, disabled>>
             ELSE IF response.error
             THEN /\ isSubmitting' = FALSE
                  /\ disabled' = FALSE
                  /\ ev' = [ev EXCEPT ![e].at = "returned"]
             ELSE IF ev[e].redirectUrl
             THEN /\ ev' = [ev EXCEPT ![e].at = "redirected"]
                  /\ UNCHANGED <<isSubmitting, disabled>>
             ELSE /\ isSubmitting' = FALSE
                  /\ disabled' = FALSE
                  /\ ev' = [ev EXCEPT ![e].at = "returned"]
    /\ UNCHANGED apiVars

NextUi ==
    \E e \in Events :
        \/ SubmitEvent(e)
        \/ TokenSettles(e)
        \/ PostSettles(e)

SpecUi == Init /\ [][NextUi]_vars

\* The same page with every pending promise settling sooner or later
SpecUiLive ==
    /\ Init
    /\ [][NextUi]_vars
    /\ \A e \in Events : WF_vars(TokenSettles(e)) /\ WF_vars(PostSettles(e))

(***************************************************************************)
(* Vocabulary of the properties                                            *)
(***************************************************************************)
CrmOps == {"findPerson", "createPerson", "findLead", "createLead", "note"}

\* The positions of request r's calls of one operation
CallsOf(r, op) == {i \in 1..Len(calls[r]) : calls[r][i].op = op}

\* The call raised an exception in the handler (a note's rejection is caught
\* inside addNoteToLeadAndPerson)
Threw(c) ==
    \/ c.res = "throw" /\ c.op # "note"
    \/ c.res \in {"error", "nodata"}

\* The operation the handler issues after call c, when c raised nothing
Successor(c) ==
    CASE c.op = "captcha" -> {"insert"}
      [] c.op = "insert" -> {"findPerson"}
      [] c.op = "findPerson" -> IF c.res = "found" THEN {"findLead"} ELSE {"createPerson"}
      [] c.op = "createPerson" -> {"findLead"}
      [] c.op = "findLead" -> IF c.res = "found" THEN {"note"} ELSE {"createLead"}
      [] c.op = "createLead" -> {"note"}
      [] OTHER -> {}

\* Request r issued no call to the backup store or to the CRM
NoBackupNoCrm(r) ==
    /\ \A i \in 1..Len(calls[r]) : calls[r][i].op = "captcha"
    /\ \A row \in backup : row.by # r

\* Request r returned the 500 envelope with this message
Failed500(r, message) == pc[r] = "done" /\ resp[r] = ErrorEnvelope(message)

(***************************************************************************)
(* C1: the external calls of a request come in the order spam              *)
(* verification, backup insert, contact search, (contact create), lead     *)
(* search, (lead create), note create; a call is issued only after the     *)
(* call before it returned without an exception, and none after one threw. *)
(***************************************************************************)
C1_StageOrder ==
    \A r \in Reqs :
        /\ Len(calls[r]) > 0 => calls[r][1].op = "captcha"
        /\ \A i \in 1..(Len(calls[r]) - 1) :
              /\ ~Threw(calls[r][i])
              /\ calls[r][i + 1].op \in Successor(calls[r][i])

\* A request that went through all seven calls, and one stopped by a throw
C1_Witness ==
    \E r, o \in Reqs :
        /\ pc[r] = "done" /\ Len(calls[r]) = 7
        /\ pc[o] = "done" /\ Len(calls[o]) = 3 /\ Threw(calls[o][3])

(***************************************************************************)
(* C2: when the spam check fails (validateCaptcha returns a status other   *)
(* than 200, or throws) the request ends with a 500 envelope and neither   *)
(* the backup store nor the CRM gets a call.                               *)
(***************************************************************************)
SpamCheckFailed(r) ==
    /\ Len(calls[r]) > 0
    /\ LET captchaResponse == validateCaptcha(calls[r][1].res)
       IN captchaResponse.thrown \/ captchaResponse.status # 200

\* C2: a failed spam check ends the request with status 500 and no backup or CRM call
C2_SpamFailShortCircuits ==
    \A r \in Reqs :
        SpamCheckFailed(r) =>
            /\ pc[r] = "done"
            /\ resp[r].status = 500
            /\ NoBackupNoCrm(r)

C2_Witness ==
    \E r \in Reqs : SpamCheckFailed(r) /\ pc[r] = "done"

(***************************************************************************)
(* C3: the spam filter's outcome is the verification service's answer: if  *)
(* the service answers non-success the request gets the 500 reCAPTCHA      *)
(* envelope, and the check passes only if the service reported success.    *)
(***************************************************************************)
C3_VerifyIsServiceAnswer ==
    \A r \in Reqs :
        Len(calls[r]) > 0 =>
            /\ calls[r][1].res = "fail" => Failed500(r, "RecaptchaFailed")
            /\ Len(calls[r]) > 1 => calls[r][1].res = "success"

(***************************************************************************)
(* C4: a request whose resolved form name has no field mapping fails with  *)
(* the configuration error, and the backup store and the CRM see no call   *)
(* of it.                                                                  *)
(***************************************************************************)
UnknownForm(r) ==
    /\ pc[r] # "idle"
    /\ extractUrlParams(req[r].query).formName \notin DOMAIN FORM_FIELD_MAPPINGS

InsertFailed(r) ==
    \E i \in CallsOf(r, "insert") : calls[r][i].res \in {"error", "throw"}

\* C5: a failed backup insert ends the request with status 500 and no CRM call
C5_BackupFailureStopsCrm ==
    \A r \in Reqs :
        InsertFailed(r) =>
            /\ pc[r] = "done"
            /\ resp[r].status = 500
            /\ (\E i \in CallsOf(r, "insert") : calls[r][i].res = "error")
                  => resp[r] = ErrorEnvelope("DatabaseStorageFailed")
            /\ \A op \in CrmOps : CallsOf(r, op) = {}
            /\ \A n \in notes : n.by # r

C5_Witness ==
    \E r \in Reqs :
        /\ \E i \in CallsOf(r, "insert") : calls[r][i].res = "error"
        /\ pc[r] = "done"
        /\ persons # {}

(***************************************************************************)
(* C6: when the contact search returns an existing contact, the request    *)
(* issues no create-contact call and looks the lead up with that contact's *)
(* id.                                                                     *)
(***************************************************************************)
C6_ExistingContactReused ==
    \A r \in Reqs :
        \A i \in CallsOf(r, "findPerson") :
            calls[r][i].res = "found" =>
                /\ CallsOf(r, "createPerson") = {}
                /\ \E p \in persons : p.id = calls[r][i].id
                /\ IF Len(calls[r]) = i
                   THEN pc[r] = "findLead" /\ loc[r].person.id = calls[r][i].id
                   ELSE /\ calls[r][i + 1].op = "findLead"
                        /\ calls[r][i + 1].arg.person_id = calls[r][i].id

\* A request found the contact another request created, and looked its lead up
C6_Witness ==
    \E r, o \in Reqs :
        /\ r # o
        /\ \E i \in CallsOf(r, "findPerson"), j \in CallsOf(o, "createPerson") :
              /\ calls[r][i].res = "found"
              /\ calls[o][j].res = "created"
              /\ calls[r][i].id = calls[o][j].id
        /\ CallsOf(r, "findLead") # {}

(***************************************************************************)
(* C7: a submission looks the lead up at most once.  If the lookup finds   *)
(* no lead, exactly one create-lead call follows, titled with the          *)
(* contact's name and linked to the contact's id; if it finds one, no      *)
(* create-lead call is issued and the found lead's id is used.             *)
(***************************************************************************)
\* The contact request r holds: the one its search found or its create returned
ContactOf(r) ==
    CHOOSE p \in persons :
        \E i \in CallsOf(r, "findPerson") \cup CallsOf(r, "createPerson") :
            calls[r][i].res \in {"found", "created"} /\ calls[r][i].id = p.id

\* C7: one lead lookup; a miss is followed by one create for the contact, a hit by none
C7_LeadLookupThenCreate ==
    \A r \in Reqs :
        /\ Cardinality(CallsOf(r, "findLead")) <= 1
        /\ Cardinality(CallsOf(r, "createLead")) <= 1
        /\ \A i \in CallsOf(r, "findLead") :
              IF calls[r][i].res = "found"
              THEN /\ CallsOf(r, "createLead") = {}
                   /\ \E l \in leads : l.id = calls[r][i].id
                   /\ IF Len(calls[r]) = i
                      THEN pc[r] = "note" /\ loc[r].leadId = calls[r][i].id
                      ELSE /\ calls[r][i + 1].op = "note"
                           /\ calls[r][i + 1].arg.lead_id = calls[r][i].id
              ELSE IF calls[r][i].res \in {"miss", "fail"}
              THEN IF Len(calls[r]) = i
                   THEN pc[r] = "createLead"
                   ELSE /\ calls[r][i + 1].op = "createLead"
                        /\ calls[r][i + 1].arg =
                              [title |-> ContactOf(r).name, person_id |-> ContactOf(r).id]
              ELSE CallsOf(r, "createLead") = {}

\* One request created a lead after a miss for a contact it found, and
\* another request found a lead
C7_Witness ==
    \E r, o \in Reqs :
        /\ \E i \in CallsOf(r, "findLead"), j \in CallsOf(r, "createLead"),
              k \in CallsOf(r, "findPerson") :
              /\ calls[r][i].res = "miss"
              /\ calls[r][j].res = "created"
              /\ calls[r][k].res = "found"
        /\ \E i \in CallsOf(o, "findLead") : calls[o][i].res = "found"

(***************************************************************************)
(* C8: for non-overlapping submissions with the same email and name,       *)
(* against a CRM whose searches reflect all earlier creates, the CRM ends  *)
(* with at most one contact for the email and at most one lead per         *)
(* (contact id, title): only the first submission creates.                 *)
(***************************************************************************)
Canonical(r) ==
    standardizeFormData(req[r].body, extractUrlParams(req[r].query).formName)

SameEmailAndName ==
    \A r, o \in Reqs :
        pc[r] # "idle" /\ pc[o] # "idle" =>
            /\ Canonical(r).ok /\ Canonical(o).ok
            /\ Canonical(r).val["email"] = Canonical(o).val["email"]
            /\ Canonical(r).val["fullName"] = Canonical(o).val["fullName"]

\* No lead search was answered success: false
SearchesAnswered ==
    \A r \in Reqs : \A i \in CallsOf(r, "findLead") : calls[r][i].res # "fail"

\* The calls of one operation, of all requests, that created an entity
CreatedCalls(op) ==
    {ri \in Reqs \X (1..7) : ri[2] \in CallsOf(ri[1], op) /\ calls[ri[1]][ri[2]].res = "created"}

\* C8: sequential submissions of one email and name leave one contact and one lead
C8_SequentialIdempotent ==
    ~overlap /\ SameEmailAndName /\ SearchesAnswered =>
        /\ \A p1, p2 \in persons : p1.email = p2.email => p1 = p2
        /\ \A l1, l2 \in leads :
              l1.person_id = l2.person_id /\ l1.title = l2.title => l1 = l2
        /\ Cardinality(CreatedCalls("createPerson")) <= 1
        /\ Cardinality(CreatedCalls("createLead")) <= 1

(***************************************************************************)
(* C9: concurrent submissions for one email are not deduplicated: a        *)
(* request creates the contact on the strength of its own earlier lookup   *)
(* miss, every create adds a contact whatever the CRM holds by then, and   *)
(* so two overlapping requests can both miss and both create.  For an      *)
(* email the search term carries unchanged, overlap is the only way to     *)
(* duplicates.                                                             *)
(***************************************************************************)
C9_NoDeduplication ==
    /\ \A r \in Reqs : \A i \in CallsOf(r, "createPerson") :
          i > 1 /\ calls[r][i - 1].op = "findPerson" /\ calls[r][i - 1].res = "miss"
    /\ Cardinality(persons) = Cardinality(CreatedCalls("createPerson"))
    /\ Cardinality(leads) = Cardinality(CreatedCalls("createLead"))
    /\ \A p1, p2 \in persons :
          p1 # p2 /\ p1.email = p2.email /\ encodeURI(p1.email) = p1.email => overlap

\* Two overlapping requests both missed and both created: two contacts with
\* one email, and a lead for each
C9_Witness ==
    /\ overlap
    /\ \E p1, p2 \in persons :
          /\ p1 # p2 /\ p1.email = p2.email /\ p1.name = p2.name
          /\ encodeURI(p1.email) = p1.email
          /\ \E l1, l2 \in leads : l1.person_id = p1.id /\ l2.person_id = p2.id
    /\ \A r \in Reqs :
          /\ \E i \in CallsOf(r, "findPerson") : calls[r][i].res = "miss"
          /\ \E i \in CallsOf(r, "createPerson") : calls[r][i].res = "created"

(***************************************************************************)
(* C10: a failure of the note step never fails the request: once the       *)
(* contact step and the lead step have succeeded (and so the spam check,   *)
(* the mapping and the backup insert before them), the response is the 200 *)
(* envelope whether or not the note call succeeded.                        *)
(***************************************************************************)
LeadObtained(r) ==
    \E i \in CallsOf(r, "findLead") \cup CallsOf(r, "createLead") :
        calls[r][i].res \in {"found", "created"}

\* C10: a request that obtained its lead answers 200 whatever the note call did
C10_NoteIsBestEffort ==
    \A r \in Reqs :
        LeadObtained(r) =>
            /\ pc[r] \in {"note", "done"}
            /\ pc[r] = "done" => resp[r] = SuccessEnvelope

\* A request whose note POST was rejected and which answered 200
C10_Witness ==
    \E r \in Reqs :
        /\ pc[r] = "done"
        /\ \E i \in CallsOf(r, "note") : calls[r][i].res = "throw"
        /\ resp[r] = SuccessEnvelope
        /\ \A n \in notes : n.by # r

(***************************************************************************)
(* C11: every request ends with exactly one envelope.  It is the 200       *)
(* envelope {error: null, status: 200, recaptcha_result: "success"} exactly *)
(* when the spam check, the field mapping, the backup insert, the contact  *)
(* step and the lead step all completed without an exception; otherwise it *)
(* is {error: <message>, status: 500} without recaptcha_result.  No        *)
(* request gets another status, and a request still running has none.      *)
(***************************************************************************)
SpamCheckPassed(r) ==
    \E i \in CallsOf(r, "captcha") : calls[r][i].res \in {"success", "fail"}

MappingPassed(r) ==
    /\ extractUrlParams(req[r].query).formName \in DOMAIN FORM_FIELD_MAPPINGS
    /\ loc[r].standardized # <<>>

InsertPassed(r) ==
    \E i \in CallsOf(r, "insert") : calls[r][i].res = "ok"

ContactObtained(r) ==
    \E i \in CallsOf(r, "findPerson") \cup CallsOf(r, "createPerson") :
        calls[r][i].res \in {"found", "created"}

AllStepsPassed(r) ==
    /\ SpamCheckPassed(r)
    /\ MappingPassed(r)
    /\ InsertPassed(r)
    /\ ContactObtained(r)
    /\ LeadObtained(r)

\* C11: one envelope per finished request, 200 iff all five steps passed, else 500
C11_OneEnvelope ==
    \A r \in Reqs :
        /\ pc[r] # "done" => resp[r].status = 0
        /\ pc[r] = "done" =>
              /\ resp[r].status \in {200, 500}
              /\ resp[r].status = 200 <=> AllStepsPassed(r)
              /\ resp[r].status = 200 =>
                    resp[r].error = "null" /\ resp[r].recaptcha_result = "success"
              /\ resp[r].status = 500 =>
                    /\ resp[r].error \notin {"null", "none"}
                    /\ resp[r].recaptcha_result = "absent"

\* A request that passed all five steps, delivered its note and was answered
\* with the 200 envelope
C11_Witness ==
    \E r \in Reqs :
        /\ pc[r] = "done" /\ AllStepsPassed(r)
        /\ resp[r] = [status |-> 200, error |-> "null", recaptcha_result |-> "success"]
        /\ \E n \in notes : n.by = r

(***************************************************************************)
(* C12: for every known form name and every raw form the mapping accepts,  *)
(* the canonical record has a non-empty email and a non-empty fullName,    *)
(* both trimmed; an optional field (phone, jobTitle, company, message) is  *)
(* in the record exactly when the form's mapping names a raw field for it  *)
(* and that raw field's value is non-empty after trimming, and then equals *)
(* the trimmed value.  A form carrying every mapped field non-blank yields *)
(* every mapped canonical field.                                           *)
(***************************************************************************)
\* The string has no blank at either end
Unpadded(s) == s = <<>> \/ (s[1] # " " /\ s[Len(s)] # " ")

\* The raw field is in the body and is not blank
Filled(body, field) ==
    field \in DOMAIN body /\ \E i \in 1..Len(body[field]) : body[field][i] # " "

\* The raw fields a mapping names
MappedFields(mapping) ==
    {mapping.email}
    \cup {mapping.fullName.fields[i] : i \in 1..Len(mapping.fullName.fields)}
    \cup {mapping[k] : k \in OptionalFields \cap DOMAIN mapping}

\* C12: what an accepted raw form's canonical record holds
C12_CanonicalRecord ==
    \A r \in Reqs :
        loc[r].standardized # <<>> =>
            /\ loc[r].formName \in DOMAIN FORM_FIELD_MAPPINGS
            /\ LET mapping == FORM_FIELD_MAPPINGS[loc[r].formName]
                   body == req[r].body
                   std == loc[r].standardized
               IN /\ DOMAIN std \subseteq {"email", "fullName"} \cup OptionalFields
                  /\ {"email", "fullName"} \subseteq DOMAIN std
                  /\ Filled(body, mapping.email)
                  /\ std["email"] # <<>> /\ std["email"] = Trim(body[mapping.email])
                  /\ std["fullName"] # <<>> /\ Unpadded(std["fullName"])
                  /\ ~mapping.fullName.isArray =>
                        std["fullName"] = Trim(body[mapping.fullName.fields[1]])
                  /\ \A k \in OptionalFields :
                        /\ k \in DOMAIN std <=>
                              (k \in DOMAIN mapping /\ Filled(body, mapping[k]))
                        /\ k \in DOMAIN std =>
                              std[k] # <<>> /\ std[k] = Trim(body[mapping[k]])
                  /\ (\A f \in MappedFields(mapping) : Filled(body, f)) =>
                        DOMAIN std = DOMAIN mapping

\* A contact form with every mapped field filled and a padded email, mapped
\* to all six canonical fields
C12_Witness ==
    \E r \in Reqs :
        /\ loc[r].standardized # <<>>
        /\ loc[r].formName = contact
        /\ \A f \in MappedFields(FORM_FIELD_MAPPINGS[contact]) : Filled(req[r].body, f)
        /\ DOMAIN loc[r].standardized = {"email", "fullName"} \cup OptionalFields
        /\ req[r].body["Email"] # loc[r].standardized["email"]

(***************************************************************************)
(* C13: when a form's fullName mapping is a list of raw fields, the        *)
(* canonical fullName is the trimmed values of the listed fields that are  *)
(* not blank, in the configured order, joined by exactly one space.  With  *)
(* only the last name given it is the trimmed last name, with no blank     *)
(* before or after; with every listed field blank or missing the mapper    *)
(* raises a validation error.                                              *)
(***************************************************************************)
RECURSIVE ExpectedName(_, _)
\* The filled fields' trimmed values, each but the last followed by one space
ExpectedName(body, fields) ==
    IF fields = <<>> THEN <<>>
    ELSE LET rest == ExpectedName(body, Tail(fields))
         IN IF ~Filled(body, Head(fields)) THEN rest
            ELSE IF rest = <<>> THEN Trim(body[Head(fields)])
            ELSE Trim(body[Head(fields)]) \o <<" ">> \o rest

\* Request r reached the mapper with a form whose fullName mapping is a list
ListNamed(r) ==
    /\ pc[r] \notin {"idle", "captcha"}
    /\ SpamCheckPassed(r)
    /\ loc[r].formName \in DOMAIN FORM_FIELD_MAPPINGS
    /\ FORM_FIELD_MAPPINGS[loc[r].formName].fullName.isArray

\* C13: the fullName of a list mapping, and the error when no part is given
C13_FullNameJoin ==
    \A r \in Reqs :
        ListNamed(r) =>
            LET mapping == FORM_FIELD_MAPPINGS[loc[r].formName]
                fields == mapping.fullName.fields
                body == req[r].body
                last == fields[Len(fields)]
                expected == ExpectedName(body, fields)
            IN /\ loc[r].standardized # <<>> =>
                     /\ loc[r].standardized["fullName"] = expected
                     /\ Unpadded(loc[r].standardized["fullName"])
               /\ (loc[r].standardized # <<>>
                     /\ \A i \in 1..(Len(fields) - 1) : ~Filled(body, fields[i])) =>
                     loc[r].standardized["fullName"] = Trim(body[last])
               /\ (\A i \in 1..Len(fields) : ~Filled(body, fields[i])) =>
                     /\ loc[r].standardized = <<>>
                     /\ pc[r] = "done" /\ resp[r].status = 500
                     /\ resp[r].error \in {"EmailRequired", "NameRequired"}
                     /\ Filled(body, mapping.email) => resp[r].error = "NameRequired"

\* A newsletter form with no first name and a padded last name, mapped to
\* the bare last name
C13_Witness ==
    \E r \in Reqs :
        /\ ListNamed(r)
        /\ loc[r].standardized # <<>>
        /\ ~Filled(req[r].body, "First-Name")
        /\ req[r].body["Last-Name"] = <<" ", "a">>
        /\ loc[r].standardized["fullName"] = <<"a">>

(***************************************************************************)
(* C14: for every known form name, a raw form whose mapped email field is  *)
(* missing or blank after trimming fails with the validation error (Email  *)
(* is required), whatever its other fields contain, and the backup store   *)
(* and the CRM receive no call for that request.                           *)
(***************************************************************************)
\* Request r was sent to a known form without a filled email
EmailMissing(r) ==
    /\ pc[r] # "idle"
    /\ loc[r].formName \in DOMAIN FORM_FIELD_MAPPINGS
    /\ ~Filled(req[r].body, FORM_FIELD_MAPPINGS[loc[r].formName].email)

\* C14 as claimed: every finished request without an email carries the
\* validation error and made no backup or CRM call
C14_Original ==
    \A r \in Reqs :
        EmailMissing(r) =>
            /\ NoBackupNoCrm(r)
            /\ pc[r] = "done" => resp[r].status = 500 /\ resp[r].error = "EmailRequired"

\* C14: a request without an email makes no backup or CRM call and ends with
\* status 500; it carries the validation error when the verification call
\* returned
C14_BlankEmailFails ==
    \A r \in Reqs :
        EmailMissing(r) =>
            /\ NoBackupNoCrm(r)
            /\ pc[r] \in {"captcha", "done"}
            /\ pc[r] = "done" => resp[r].status = 500
            /\ pc[r] = "done" /\ SpamCheckPassed(r) => resp[r].error = "EmailRequired"

\* A contact form with a blank email and every other mapped field filled,
\* refused with the validation error
C14_Witness ==
    \E r \in Reqs :
        /\ EmailMissing(r)
        /\ Get(req[r].body, "Email") = <<" ">>
        /\ \A f \in MappedFields(FORM_FIELD_MAPPINGS[contact]) \ {"Email"} :
              Filled(req[r].body, f)
        /\ pc[r] = "done" /\ resp[r].error = "EmailRequired"

(***************************************************************************)
(* C15: the source of a request is its `source` query parameter, or        *)
(* "Unknown" when that is absent or empty; the form name is its `form`     *)
(* parameter when present and non-empty, and the resolved source           *)
(* otherwise.  With neither parameter both are "Unknown", and the request  *)
(* fails with the configuration error.                                     *)
(***************************************************************************)
\* The query parameter is absent or empty
NotGiven(param) == param = Null \/ param = <<>>

\* The resolution of the two identifiers, as the claim words it
ResolvedAsClaimed(r) ==
    LET q == req[r].query
        source == IF NotGiven(q.source) THEN Unknown ELSE q.source
        form == IF ~NotGiven(q.form) THEN q.form ELSE source
    IN /\ loc[r].formSource = source
       /\ loc[r].formName = form
       /\ NotGiven(q.form) /\ NotGiven(q.source) =>
             loc[r].formName = Unknown /\ loc[r].formSource = Unknown

\* C15 as claimed: a finished request with neither parameter carries the
\* configuration error
C15_Original ==
    \A r \in Reqs :
        pc[r] # "idle" =>
            /\ ResolvedAsClaimed(r)
            /\ (NotGiven(req[r].query.form) /\ NotGiven(req[r].query.source)
                  /\ pc[r] = "done") =>
                  resp[r].status = 500 /\ resp[r].error = "NoFieldMapping"

\* C15: the resolution, and with neither parameter a 500 envelope that
\* carries the configuration error when the verification call returned
C15_Resolution ==
    \A r \in Reqs :
        pc[r] # "idle" =>
            /\ ResolvedAsClaimed(r)
            /\ (NotGiven(req[r].query.form) /\ NotGiven(req[r].query.source)) =>
                  /\ pc[r] \in {"captcha", "done"}
                  /\ pc[r] = "done" => resp[r].status = 500
                  /\ pc[r] = "done" /\ SpamCheckPassed(r) =>
                        resp[r].error = "NoFieldMapping"

\* A request with an empty form parameter and no source parameter, refused
\* with the configuration error
C15_Witness ==
    \E r \in Reqs :
        /\ req[r].query = [form |-> <<>>, source |-> Null]
        /\ loc[r].formName = Unknown /\ loc[r].formSource = Unknown
        /\ pc[r] = "done" /\ resp[r].error = "NoFieldMapping"

(***************************************************************************)
(* C16: the raw record written to the backup store has `form` equal to the *)
(* resolved form name and `source` equal to the resolved source, and       *)
(* besides these holds exactly the body fields other than                  *)
(* g-recaptcha-response whose value is non-empty after trimming, under     *)
(* their own names and trimmed; a body that itself carries a field named   *)
(* form or source included.                                                *)
(***************************************************************************)
\* The body fields the raw record keeps
KeptFields(body) == {k \in DOMAIN body \ {TokenField} : Filled(body, k)}

\* C16: the record of every insert carries the resolved identifiers and the kept fields
C16_RawRecord ==
    \A r \in Reqs :
        \A i \in CallsOf(r, "insert") :
            LET data == calls[r][i].arg
                body == req[r].body
            IN /\ DOMAIN data = {"form", "source"} \cup KeptFields(body)
               /\ data["form"] = loc[r].formName
               /\ data["source"] = loc[r].formSource
               /\ \A k \in KeptFields(body) \ {"form", "source"} : data[k] = Trim(body[k])

(***************************************************************************)
(* C17: the backup does not depend on the CRM.  Once the spam check and    *)
(* the field mapping of a request succeeded, exactly one backup insert is  *)
(* issued, before any CRM call; a later CRM failure neither removes the    *)
(* row it wrote nor repeats the insert.                                    *)
(***************************************************************************)
\* The backup rows request r wrote
RowsOf(r) == {row \in backup : row.by = r}

\* A CRM call of request r raised an exception
CrmFailed(r) ==
    \E i \in 1..Len(calls[r]) : calls[r][i].op \in CrmOps /\ Threw(calls[r][i])

\* C17: one insert, ahead of every CRM call, its row kept whatever the CRM does
C17_BackupIndependentOfCrm ==
    \A r \in Reqs :
        /\ Cardinality(CallsOf(r, "insert")) <= 1
        /\ (SpamCheckPassed(r) /\ MappingPassed(r) /\ pc[r] # "backup") =>
              Cardinality(CallsOf(r, "insert")) = 1
        /\ \A j \in 1..Len(calls[r]) :
              calls[r][j].op \in CrmOps =>
                  \E i \in 1..(j - 1) :
                      calls[r][i].op = "insert" /\ calls[r][i].res = "ok"
        /\ \A i \in CallsOf(r, "insert") :
              calls[r][i].res = "ok" =>
                  RowsOf(r) = {[by |-> r, data |-> calls[r][i].arg]}
        /\ ~InsertPassed(r) => RowsOf(r) = {}

\* A request that failed in the CRM after its insert, its row in the store
C17_Witness ==
    \E r \in Reqs :
        /\ pc[r] = "done" /\ resp[r].status = 500
        /\ CrmFailed(r)
        /\ Cardinality(CallsOf(r, "insert")) = 1
        /\ Cardinality(RowsOf(r)) = 1

(***************************************************************************)
(* C18: there are no retries.  Within one request each external operation  *)
(* (spam verification, backup insert, contact search, contact create, lead *)
(* search, lead create, note create) is issued at most once, and a failure *)
(* of any operation other than the note create ends the request with a 500 *)
(* envelope.                                                               *)
(***************************************************************************)
AllOps == {"captcha", "insert"} \cup CrmOps

\* The operation failed: the call rejected, or the service answered with an
\* error (an insert error, a body without data, a search's success: false)
OperationFailed(c) ==
    \/ c.res \in {"throw", "error", "nodata"}
    \/ c.op = "findLead" /\ c.res = "fail"

\* C18: each operation at most once per request, and a failed one (the note aside) is terminal
C18_NoRetriesFailureTerminal ==
    \A r \in Reqs :
        /\ \A op \in AllOps : Cardinality(CallsOf(r, op)) <= 1
        /\ \A i \in 1..Len(calls[r]) :
              (OperationFailed(calls[r][i]) /\ calls[r][i].op # "note") =>
                  /\ pc[r] = "done"
                  /\ resp[r].status = 500
                  /\ i = Len(calls[r])

(***************************************************************************)
(* C19: the system never changes an existing contact.  When a submission's *)
(* email matches a contact, the contact's name, email, phone, owner and    *)
(* visibility are after the request what they were before, even when the   *)
(* submitted name or phone differ; the only writes the CRM ever gets are   *)
(* create-contact, create-lead and create-note.                            *)
(***************************************************************************)
\* The contact a create-contact call made, as the CRM stored it
AsCreated(c) ==
    [id |-> c.id, name |-> c.arg.name, email |-> c.arg.email, phone |-> c.arg.phone,
     owner_id |-> c.arg.owner_id, visible_to |-> c.arg.visible_to]

\* The calls of one operation that created an entity
Creations(op) ==
    UNION {{calls[r][i] : i \in {j \in CallsOf(r, op) : calls[r][j].res = "created"}} :
              r \in Reqs}

ReadmeSubmission(r) ==
    /\ pc[r] # "idle"
    /\ req[r].query.form \in ReadmeForms
    /\ req[r].body = BodyReadme

\* C20: the README's form is mapped for each documented form name
C20_ReadmeFormsMapped ==
    \A r \in Reqs :
        ReadmeSubmission(r) =>
            /\ loc[r].formName \in DOMAIN FORM_FIELD_MAPPINGS
            /\ (pc[r] # "captcha" /\ SpamCheckPassed(r)) => loc[r].standardized # <<>>

(***************************************************************************)
(* C21: when the create-contact call is made and the CRM's response        *)
(* carries no created entity, the sync fails with the contact-creation     *)
(* error, the request returns a 500 envelope, and no lead search, lead     *)
(* create or note create is issued for that request.                       *)
(***************************************************************************)
\* The create-contact call of request r came back without an entity
ContactNotCreated(r) ==
    \E i \in CallsOf(r, "createPerson") : calls[r][i].res = "nodata"

\* C21: a create-contact response without an entity ends the request with the
\* contact-creation error and no lead or note call
C21_NoContactNoLead ==
    \A r \in Reqs :
        ContactNotCreated(r) =>
            /\ pc[r] = "done"
            /\ resp[r].status = 500
            /\ resp[r].error = "CreatePersonFailed"
            /\ \A op \in {"findLead", "createLead", "note"} : CallsOf(r, op) = {}
            /\ calls[r][Len(calls[r])].op = "createPerson"

\* A finished request whose create-contact call came back without an entity
C21_Witness ==
    \E r \in Reqs :
        /\ ContactNotCreated(r)
        /\ pc[r] = "done"
        /\ resp[r].error = "CreatePersonFailed"
        /\ InsertPassed(r)

(***************************************************************************)
(* C22: when neither the lead lookup nor the lead creation yields a usable *)
(* lead id, the sync fails with the lead error, the request returns a 500  *)
(* envelope and no note-create call is issued; and a note-create call is   *)
(* only ever issued with a lead id and a contact id the CRM returned       *)
(* earlier in the same request.                                            *)
(***************************************************************************)
\* The lead lookup of request r found nothing and its lead create came back
\* without an entity
NoLeadId(r) ==
    /\ \A i \in CallsOf(r, "findLead") : calls[r][i].res # "found"
    /\ \E i \in CallsOf(r, "createLead") : calls[r][i].res = "nodata"

\* Call i of request r carries an id the CRM returned for one of these operations
ReturnedId(r, i, ops) ==
    /\ calls[r][i].op \in ops
    /\ calls[r][i].res \in {"found", "created"}
    /\ calls[r][i].id # 0

\* C22: without a lead id the request fails with the lead error and issues no
\* note; every note carries a lead id and a contact id returned before it
C22_NoteNeedsReturnedIds ==
    \A r \in Reqs :
        /\ NoLeadId(r) =>
              /\ pc[r] = "done"
              /\ resp[r].status = 500
              /\ resp[r].error = "LeadFailed"
              /\ CallsOf(r, "note") = {}
        /\ (pc[r] = "done" /\ ~LeadObtained(r)) =>
              resp[r].status = 500 /\ CallsOf(r, "note") = {}
        /\ \A n \in CallsOf(r, "note") :
              /\ \E i \in 1..(n - 1) :
                    /\ ReturnedId(r, i, {"findLead", "createLead"})
                    /\ calls[r][i].id = calls[r][n].arg.lead_id
              /\ \E i \in 1..(n - 1) :
                    /\ ReturnedId(r, i, {"findPerson", "createPerson"})
                    /\ calls[r][i].id = calls[r][n].arg.person_id

\* A request that found its contact, found no lead and got no entity from the
\* lead create, finished with the lead error and without a note
C22_Witness ==
    \E r \in Reqs :
        /\ NoLeadId(r)
        /\ \E i \in CallsOf(r, "findPerson") : calls[r][i].res = "found"
        /\ pc[r] = "done"
        /\ resp[r].error = "LeadFailed"
        /\ CallsOf(r, "note") = {}

(***************************************************************************)
(* C23: the contact lookup is an exact match on the canonical email.  For  *)
(* every canonical email e the search term the CRM receives is e itself,   *)
(* whatever characters e holds, so a contact this system created with      *)
(* email e is found by a later submission with the same e.                 *)
(***************************************************************************)
\* C23: the CRM is asked for the canonical email, and a request that runs
\* after the others misses only when no contact has its email
C23_LookupIsExactMatch ==
    \A r \in Reqs :
        /\ \A i \in CallsOf(r, "findPerson") :
              FormUrlDecode(calls[r][i].arg) = loc[r].standardized["email"]
        /\ (~overlap /\ pc[r] = "createPerson") =>
              \A p \in persons : p.email # loc[r].standardized["email"]

(***************************************************************************)
(* C24: on a successful sync exactly one note-create call is issued; that  *)
(* one call carries both the lead id and the contact id of the request,    *)
(* and its text names the form and the source and has one label/value      *)
(* entry for every field present in the canonical record and none for an   *)
(* absent optional field.                                                  *)
(***************************************************************************)
\* The labels of a note's entries
LabelsOf(content) == {content.fields[i][1] : i \in 1..Len(content.fields)}

\* C24: the one note call of a request that answered 200
C24_OneNoteAllFields ==
    \A r \in Reqs :
        (pc[r] = "done" /\ resp[r].status = 200) =>
            /\ Cardinality(CallsOf(r, "note")) = 1
            /\ \A n \in CallsOf(r, "note") :
                  LET note == calls[r][n].arg
                      std == loc[r].standardized
                  IN /\ note.lead_id # 0 /\ note.person_id # 0
                     /\ \E i \in 1..(n - 1) :
                           /\ ReturnedId(r, i, {"findLead", "createLead"})
                           /\ calls[r][i].id = note.lead_id
                     /\ \E i \in 1..(n - 1) :
                           /\ ReturnedId(r, i, {"findPerson", "createPerson"})
                           /\ calls[r][i].id = note.person_id
                     /\ note.content.form = loc[r].formName
                     /\ note.content.source = loc[r].formSource
                     /\ LabelsOf(note.content) = DOMAIN std
                     /\ Len(note.content.fields) = Cardinality(DOMAIN std)
                     /\ \A i \in 1..Len(note.content.fields) :
                           note.content.fields[i][2] = std[note.content.fields[i][1]]

\* A request answered 200 whose canonical record has a phone and a message
\* and no job title or company, its note with these four entries
C24_Witness ==
    \E r \in Reqs :
        /\ pc[r] = "done" /\ resp[r].status = 200
        /\ DOMAIN loc[r].standardized = {"email", "fullName", "phone", "message"}
        /\ \E n \in CallsOf(r, "note") :
              /\ calls[r][n].res = "ok"
              /\ LabelsOf(calls[r][n].arg.content) = {"email", "fullName", "phone", "message"}

(***************************************************************************)
(* C25: there is no compensation on a partial failure.  If a contact was   *)
(* created and the lead step then fails, the request returns a 500         *)
(* envelope and the contact stays in the CRM; a later submission with the  *)
(* same email finds that contact, creates no second one and goes on to the *)
(* lead step.                                                              *)
(***************************************************************************)
\* Request o created a contact and then failed in its lead step
LeadStepFailedAfterCreate(o) ==
    /\ pc[o] = "done"
    /\ \E i \in CallsOf(o, "createPerson") : calls[o][i].res = "created"
    /\ ~LeadObtained(o)

\* Request r ran after o with the same canonical email, and its contact
\* search was answered
SearchedLater(r, o) ==
    /\ ~overlap /\ r > o
    /\ loc[r].standardized # <<>>
    /\ loc[r].standardized["email"] = loc[o].standardized["email"]
    /\ \E i \in CallsOf(r, "findPerson") : calls[r][i].res \in {"found", "miss"}

\* C25: the contact of a request that failed in its lead step stays, and the
\* next request with its email finds it instead of creating one
C25_NoCompensation ==
    \A o \in Reqs :
        LeadStepFailedAfterCreate(o) =>
            /\ resp[o].status = 500
            /\ \A i \in CallsOf(o, "createPerson") :
                  /\ AsCreated(calls[o][i]) \in persons
                  /\ \A r \in Reqs :
                        SearchedLater(r, o) =>
                            /\ \A j \in CallsOf(r, "findPerson") :
                                  /\ calls[r][j].res = "found"
                                  /\ calls[r][j].id = calls[o][i].id
                            /\ CallsOf(r, "createPerson") = {}
                            /\ pc[r] # "createPerson"

(***************************************************************************)
(* C26: errors are reported in pipeline order.  A request with both a      *)
(* failing spam check and an unknown form name reports the reCAPTCHA       *)
(* failure; a request with an unknown form name and a missing email        *)
(* reports the configuration error, never the validation error; an email   *)
(* validation error is reported before a name validation error.            *)
(***************************************************************************)
\* The verification service rejected the token of request r
TokenRejected(r) ==
    \E i \in CallsOf(r, "captcha") : calls[r][i].res = "fail"

\* Request r names no filled field for the full name of its form
NameMissing(r) ==
    /\ loc[r].formName \in DOMAIN FORM_FIELD_MAPPINGS
    /\ LET fields == FORM_FIELD_MAPPINGS[loc[r].formName].fullName.fields
       IN \A i \in 1..Len(fields) : ~Filled(req[r].body, fields[i])

\* C26: of the errors a finished request has, the envelope carries the first in pipeline order
C26_ErrorsInPipelineOrder ==
    \A r \in Reqs :
        pc[r] = "done" =>
            /\ (TokenRejected(r) /\ UnknownForm(r)) => resp[r].error = "RecaptchaFailed"
            /\ (SpamCheckFailed(r) /\ UnknownForm(r)) => resp[r].error # "NoFieldMapping"
            /\ (~TokenRejected(r) /\ ~SpamCheckFailed(r) /\ UnknownForm(r)
                  /\ ~Filled(req[r].body, "Email")) => resp[r].error = "NoFieldMapping"
            /\ (~TokenRejected(r) /\ ~SpamCheckFailed(r) /\ EmailMissing(r)
                  /\ NameMissing(r)) => resp[r].error = "EmailRequired"

(***************************************************************************)
(* C27: in the front-end contact form at most one submission is in flight  *)
(* at any time.  While isSubmitting is true, every further submit event    *)
(* returns without requesting a reCAPTCHA token and without posting to the *)
(* endpoint, however the submit events interleave with the pending         *)
(* asynchronous steps.                                                     *)
(***************************************************************************)
\* The submit events whose listener is suspended at an await
Suspended == {e \in Events : ev[e].at \in {"recaptcha", "post"}}

\* C27: one listener at most is suspended, with the flag set; an event that
\* read the flag as true requested no token and posted nothing
C27_OneSubmissionInFlight ==
    /\ Cardinality(Suspended) <= 1
    /\ Suspended # {} => isSubmitting
    /\ \A e \in Events :
          /\ ev[e].busy => ev[e].at = "ignored" /\ ev[e].tokens = 0 /\ ev[e].posts = 0
          /\ ev[e].tokens <= 1 /\ ev[e].posts <= ev[e].tokens
          /\ \A f \in Events :
                (f > e /\ ev[e].at \in {"recaptcha", "post"} /\ ev[f].at # "pending") =>
                    ev[f].busy

\* Two submit events ignored, one while the first listener awaited its token
\* and one while it awaited the POST
C27_Witness ==
    \E e, f, g \in Events :
        /\ e < f /\ f < g
        /\ ev[e].at = "post"
        /\ ev[f].at = "ignored" /\ ev[g].at = "ignored"

(***************************************************************************)
(* C28: in the front-end contact form every submission attempt that does   *)
(* not end in a redirect eventually returns the form to a submittable      *)
(* state: isSubmitting is false and the submit button is enabled again     *)
(* after a success response, an error response, a missing reCAPTCHA token  *)
(* and a network failure of the POST (handleFormSubmit returning null).    *)
(***************************************************************************)
\* The form can be submitted again
Submittable == ~isSubmitting /\ ~disabled

\* C28: an attempt that got past the flag leads to a redirect or to a submittable form
C28_EventuallySubmittable ==
    \A e \in Events :
        (ev[e].at = "recaptcha") ~>
            (ev[e].at \in {"redirected", "rejected"} \/ Submittable)

====
